---- MODULE Spec2Model ----
(***************************************************************************)
(* A model of the enid crate: the base32 codec (src/base32.rs) and the     *)
(* identifier types Enid40, Enid80 and Enid (src/enid.rs).                 *)
(*                                                                         *)
(* Bytes are integers 0..255, byte arrays and texts are sequences of       *)
(* bytes (1-based here, 0-based in the source).  A u64 is the sequence of  *)
(* its 8 bytes, most significant first, so that shifts discard exactly the *)
(* bits the hardware discards.                                             *)
(***************************************************************************)
EXTENDS Integers, Sequences, FiniteSets, TLC

VARIABLES op, arg, out

vars == <<op, arg, out>>

(***************************************************************************)
(* Results: Result<T, EnidParseError>                                      *)
(***************************************************************************)
Ok(v) == [tag |-> "Ok", val |-> v]

Err == [tag |-> "Err", val |-> <<>>]

(***************************************************************************)
(* u64 arithmetic.  A word is the sequence of its 8 bytes, most            *)
(* significant first; shifts drop the bits that leave the 64-bit word.     *)
(***************************************************************************)
Bit(b, i) == (b \div (2 ^ i)) % 2

BitOr(a, b, i) == IF Bit(a, i) = 1 \/ Bit(b, i) = 1 THEN 2 ^ i ELSE 0

u8_or(a, b) ==
    BitOr(a, b, 7) + BitOr(a, b, 6) + BitOr(a, b, 5) + BitOr(a, b, 4)
    + BitOr(a, b, 3) + BitOr(a, b, 2) + BitOr(a, b, 1) + BitOr(a, b, 0)

\* byte k of a word, zero outside the word
Limb(w, k) == IF k \in 1..8 THEN w[k] ELSE 0

u64_zero == <<0, 0, 0, 0, 0, 0, 0, 0>>

u64_from_be_bytes(bytes) ==
    <<bytes[1], bytes[2], bytes[3], bytes[4], bytes[5], bytes[6], bytes[7], bytes[8]>>

u64_to_be_bytes(w) == <<w[1], w[2], w[3], w[4], w[5], w[6], w[7], w[8]>>

u64_from_u8(b) == <<0, 0, 0, 0, 0, 0, 0, b>>

\* a variant of u64_shl: the word is shifted by one bit less
u64_shl_one_less(w, n) ==
    LET q == (n - 1) \div 8
        r == (n - 1) % 8
        limb(k) == ((Limb(w, k + q) * (2 ^ r)) % 256)
                   + (Limb(w, k + q + 1) \div (2 ^ (8 - r)))
    IN  <<limb(1), limb(2), limb(3), limb(4), limb(5), limb(6), limb(7), limb(8)>>

\* a variant of u64_shr: the word is shifted by one bit less
u64_shr_one_less(w, n) ==
    LET q == (n - 1) \div 8
        r == (n - 1) % 8
        limb(k) == (Limb(w, k - q) \div (2 ^ r))
                   + ((Limb(w, k - q - 1) * (2 ^ (8 - r))) % 256)
    IN  <<limb(1), limb(2), limb(3), limb(4), limb(5), limb(6), limb(7), limb(8)>>

\* byte k of w << n
ShlLimb(w, n, k) ==
    LET q == n \div 8
        r == n % 8
    IN  ((Limb(w, k + q) * (2 ^ r)) % 256) + (Limb(w, k + q + 1) \div (2 ^ (8 - r)))

u64_shl(w, n) ==
    << ShlLimb(w, n, 1), ShlLimb(w, n, 2), ShlLimb(w, n, 3), ShlLimb(w, n, 4),
       ShlLimb(w, n, 5), ShlLimb(w, n, 6), ShlLimb(w, n, 7), ShlLimb(w, n, 8) >>

\* byte k of w >> n
ShrLimb(w, n, k) ==
    LET q == n \div 8
        r == n % 8
    IN  (Limb(w, k - q) \div (2 ^ r)) + ((Limb(w, k - q - 1) * (2 ^ (8 - r))) % 256)

u64_shr(w, n) ==
    << ShrLimb(w, n, 1), ShrLimb(w, n, 2), ShrLimb(w, n, 3), ShrLimb(w, n, 4),
       ShrLimb(w, n, 5), ShrLimb(w, n, 6), ShrLimb(w, n, 7), ShrLimb(w, n, 8) >>

u64_or(x, y) ==
    << u8_or(x[1], y[1]), u8_or(x[2], y[2]), u8_or(x[3], y[3]), u8_or(x[4], y[4]),
       u8_or(x[5], y[5]), u8_or(x[6], y[6]), u8_or(x[7], y[7]), u8_or(x[8], y[8]) >>

\* `as usize` of a word that fits (Horner over its bytes)
as_usize(w) ==
    ((((((w[1] * 256 + w[2]) * 256 + w[3]) * 256 + w[4]) * 256 + w[5])
        * 256 + w[6]) * 256 + w[7]) * 256 + w[8]

\* n zero bytes
Zeros(n) == [i \in 1..n |-> 0]

(***************************************************************************)
(* src/base32.rs                                                           *)
(***************************************************************************)
\* a variant of CHARS: the alphabet in uppercase letters,
\* b"0123456789ABCDEFGHJKMNPQRSTVWXYZ"
CHARS_uppercase ==
    << 48, 49, 50, 51, 52, 53, 54, 55, 56, 57,
       65, 66, 67, 68, 69, 70, 71, 72,
       74, 75, 77, 78,
       80, 81, 82, 83, 84, 86, 87, 88, 89, 90 >>

\* a variant of CHARS: the alphabet of RFC 4648,
\* b"abcdefghijklmnopqrstuvwxyz234567"
CHARS_rfc4648 ==
    << 97, 98, 99, 100, 101, 102, 103, 104, 105, 106, 107, 108, 109,
       110, 111, 112, 113, 114, 115, 116, 117, 118, 119, 120, 121, 122,
       50, 51, 52, 53, 54, 55 >>

\* b"0123456789abcdefghjkmnpqrstvwxyz"
CHARS ==
    << 48, 49, 50, 51, 52, 53, 54, 55, 56, 57,
       97, 98, 99, 100, 101, 102, 103, 104,
       106, 107, 109, 110,
       112, 113, 114, 115, 116, 118, 119, 120, 121, 122 >>

INVALID == 255

\* a variant of VALUES_loop: the value written is the count of symbols seen,
\* one more than the index
RECURSIVE VALUES_loop_count(_, _, _)
VALUES_loop_count(chars, values, i) ==
    IF i < Len(chars)
    THEN LET idx == chars[i + 1]
         IN  IF values[idx] # INVALID
             THEN [panicked |-> TRUE, values |-> values]
             ELSE VALUES_loop_count(chars, [values EXCEPT ![idx] = i + 1], i + 1)
    ELSE [panicked |-> FALSE, values |-> values]

\* a variant of VALUES_loop: the cell is written without the assertion
RECURSIVE VALUES_loop_unchecked(_, _, _)
VALUES_loop_unchecked(chars, values, i) ==
    IF i < Len(chars)
    THEN VALUES_loop_unchecked(chars, [values EXCEPT ![chars[i + 1]] = i], i + 1)
    ELSE [panicked |-> FALSE, values |-> values]

RECURSIVE VALUES_loop(_, _, _)
VALUES_loop(chars, values, i) ==
    IF i < Len(chars)
    THEN LET idx == chars[i + 1]
         IN  IF values[idx] # INVALID
             THEN [panicked |-> TRUE, values |-> values]
             ELSE VALUES_loop(chars, [values EXCEPT ![idx] = i], i + 1)
    ELSE [panicked |-> FALSE, values |-> values]

VALUES_build(chars) == VALUES_loop(chars, [v \in 0..255 |-> INVALID], 0)

\* a variant of VALUES: the uppercase letters take the values of the
\* lowercase ones (case folding)
VALUES_casefold ==
    LET table == VALUES_build(CHARS).values
    IN  [v \in 0..255 |->
            IF v \in 65..90 /\ table[v] = INVALID THEN table[v + 32] ELSE table[v]]

VALUES == VALUES_build(CHARS).values

\* a variant of encode_loop: the symbols are written from the last place
\* to the first (least significant quintet last becomes first)
\* what a call that panics returns: nothing
PANIC == <<>>

\* the index of the symbol that the loop of encode reads from CHARS
encode_index(bits) == as_usize(u64_shr(bits, 59))

RECURSIVE encode_loop_reversed(_, _, _)
encode_loop_reversed(bits, chars, i) ==
    IF i < 8
    THEN IF encode_index(bits) >= Len(CHARS)
         THEN PANIC
         ELSE encode_loop_reversed(
                  u64_shl(bits, 5),
                  [chars EXCEPT ![8 - i] = CHARS[encode_index(bits) + 1]],
                  i + 1)
    ELSE chars

\* CHARS[idx] is a checked access: an index past the array panics
RECURSIVE encode_loop(_, _, _)
encode_loop(bits, chars, i) ==
    IF i < 8
    THEN IF encode_index(bits) >= Len(CHARS)
         THEN PANIC
         ELSE encode_loop(u64_shl(bits, 5),
                          [chars EXCEPT ![i + 1] = CHARS[encode_index(bits) + 1]],
                          i + 1)
    ELSE chars

\* the locals of encode as its loop is entered
encode_enter(bytes) ==
    [bits |-> u64_from_be_bytes(
                  <<bytes[1], bytes[2], bytes[3], bytes[4], bytes[5], 0, 0, 0>>),
     chars |-> <<0, 0, 0, 0, 0, 0, 0, 0>>,
     i |-> 0,
     panicked |-> FALSE]

\* one iteration of the loop of encode on its locals
encode_iteration(l) ==
    IF encode_index(l.bits) >= Len(CHARS)
    THEN [l EXCEPT !.panicked = TRUE]
    ELSE [bits |-> u64_shl(l.bits, 5),
          chars |-> [l.chars EXCEPT ![l.i + 1] = CHARS[encode_index(l.bits) + 1]],
          i |-> l.i + 1,
          panicked |-> FALSE]

\* a variant of encode: the three zero bytes pad the word at its high end
encode_pad_high(bytes) ==
    LET padded == <<0, 0, 0, bytes[1], bytes[2], bytes[3], bytes[4], bytes[5]>>
    IN  encode_loop(u64_from_be_bytes(padded), <<0, 0, 0, 0, 0, 0, 0, 0>>, 0)

encode(bytes) ==
    LET padded == <<bytes[1], bytes[2], bytes[3], bytes[4], bytes[5], 0, 0, 0>>
    IN  encode_loop(u64_from_be_bytes(padded), <<0, 0, 0, 0, 0, 0, 0, 0>>, 0)

RECURSIVE decode_loop(_, _, _)
decode_loop(chars, bits, i) ==
    IF i < 8
    THEN LET b == VALUES[chars[i + 1]]
         IN  IF b = INVALID
             THEN Err
             ELSE decode_loop(chars, u64_or(u64_shl(bits, 5), u64_from_u8(b)), i + 1)
    ELSE LET bytes == u64_to_be_bytes(bits)
         IN  Ok(<<bytes[4], bytes[5], bytes[6], bytes[7], bytes[8]>>)

\* a variant of decode: the result is taken one byte too high in the word
RECURSIVE decode_loop_high(_, _, _)
decode_loop_high(chars, bits, i) ==
    IF i < 8
    THEN LET b == VALUES[chars[i + 1]]
         IN  IF b = INVALID
             THEN Err
             ELSE decode_loop_high(chars, u64_or(u64_shl(bits, 5), u64_from_u8(b)), i + 1)
    ELSE LET bytes == u64_to_be_bytes(bits)
         IN  Ok(<<bytes[3], bytes[4], bytes[5], bytes[6], bytes[7]>>)

decode_bytes_high(chars) == decode_loop_high(chars, u64_zero, 0)

decode(chars) == decode_loop(chars, u64_zero, 0)

(***************************************************************************)
(* src/enid.rs                                                             *)
(* An Enid40 is its 5 bytes, an Enid80 its 10 bytes (both are transparent  *)
(* wrappers); an Enid is a variant tag with the wrapped value.  A text is  *)
(* the sequence of its bytes, so str::as_bytes and from_utf8_unchecked     *)
(* leave the sequence as it is.                                            *)
(***************************************************************************)
HYPHEN == 45

first_chunk(s, n) == SubSeq(s, 1, n)

last_chunk(s, n) == SubSeq(s, Len(s) - n + 1, Len(s))

set_first_chunk(buf, chunk) == chunk \o SubSeq(buf, Len(chunk) + 1, Len(buf))

set_last_chunk(buf, chunk) == SubSeq(buf, 1, Len(buf) - Len(chunk)) \o chunk

\* a variant of Enid40_parse_str_ascii: only a text that is too short is
\* turned away for its length
Enid40_parse_str_ascii_prefix(s) ==
    IF Len(s) < 8
    THEN Err
    ELSE LET r == decode(first_chunk(s, 8))
         IN  IF r.tag = "Ok" THEN Ok(r.val) ELSE Err

Enid40_parse_str_ascii(s) ==
    IF Len(s) # 8
    THEN Err
    ELSE LET r == decode(first_chunk(s, 8))
         IN  IF r.tag = "Ok" THEN Ok(r.val) ELSE Err

Enid40_parse_str(s) == Enid40_parse_str_ascii(s)

Enid40_from_str(s) == Enid40_parse_str(s)

Enid40_write_to_buffer(self, buf) == encode(self)

\* Display::fmt pads the buffer's text; to_string formats without width or
\* precision, so the text is written as it is
Enid40_to_string(self) == Enid40_write_to_buffer(self, Zeros(8))

\* a variant of Enid80_parse_str_ascii: the byte between the two chunks is
\* not looked at
Enid80_parse_str_ascii_any_separator(s) ==
    IF Len(s) # 17
    THEN Err
    ELSE LET r1 == decode(first_chunk(s, 8))
             r2 == decode(last_chunk(s, 8))
         IN  IF r1.tag # "Ok" \/ r2.tag # "Ok"
             THEN Err
             ELSE Ok(r1.val \o r2.val)

Enid80_parse_str_ascii(s) ==
    IF Len(s) # 17
    THEN Err
    ELSE LET bytes0 == Zeros(10)
             r1 == decode(first_chunk(s, 8))
         IN  IF r1.tag # "Ok"
             THEN Err
             ELSE LET bytes1 == set_first_chunk(bytes0, r1.val)
                  IN  IF s[8 + 1] # HYPHEN
                      THEN Err
                      ELSE LET r2 == decode(last_chunk(s, 8))
                           IN  IF r2.tag # "Ok"
                               THEN Err
                               ELSE Ok(set_last_chunk(bytes1, r2.val))

Enid80_parse_str(s) == Enid80_parse_str_ascii(s)

Enid80_from_str(s) == Enid80_parse_str(s)

\* a variant of Enid80_write_to_buffer: the second chunk of the text is
\* encoded from the first five bytes again
Enid80_write_to_buffer_first_twice(self, buf) ==
    LET buf1 == set_first_chunk(buf, encode(first_chunk(self, 5)))
        buf2 == [buf1 EXCEPT ![8 + 1] = HYPHEN]
    IN  set_last_chunk(buf2, encode(first_chunk(self, 5)))

Enid80_write_to_buffer(self, buf) ==
    LET buf1 == set_first_chunk(buf, encode(first_chunk(self, 5)))
        buf2 == [buf1 EXCEPT ![8 + 1] = HYPHEN]
    IN  set_last_chunk(buf2, encode(last_chunk(self, 5)))

Enid80_to_string(self) == Enid80_write_to_buffer(self, Zeros(17))

Enid_Enid40(enid) == [bytes |-> enid, variant |-> "Enid40"]

Enid_Enid80(enid) == [bytes |-> enid, variant |-> "Enid80"]

\* a variant of Enid_parse_str_ascii: no dispatch on the length, every text
\* is parsed as an Enid80
Enid_parse_str_ascii_no_dispatch(s) ==
    LET r == Enid80_parse_str_ascii(s)
    IN  IF r.tag = "Ok" THEN Ok(Enid_Enid80(r.val)) ELSE Err

Enid_parse_str_ascii(s) ==
    IF Len(s) = 8
    THEN LET r == Enid40_parse_str_ascii(s)
         IN  IF r.tag = "Ok" THEN Ok(Enid_Enid40(r.val)) ELSE Err
    ELSE LET r == Enid80_parse_str_ascii(s)
         IN  IF r.tag = "Ok" THEN Ok(Enid_Enid80(r.val)) ELSE Err

Enid_parse_str(s) == Enid_parse_str_ascii(s)

Enid_from_str(s) == Enid_parse_str(s)

\* a variant of Enid_to_string: both variants are formatted as an Enid40
Enid_to_string_short(self) ==
    IF self.variant = "Enid40"
    THEN Enid40_to_string(self.bytes)
    ELSE Enid40_to_string(first_chunk(self.bytes, 5))

Enid_to_string(self) ==
    IF self.variant = "Enid40"
    THEN Enid40_to_string(self.bytes)
    ELSE Enid80_to_string(self.bytes)

\* #[derive(PartialOrd, Ord)] on a wrapper of a byte array: the arrays are
\* compared byte by byte from the first, as [u8; N] compares
RECURSIVE array_cmp(_, _, _)
array_cmp(a, b, i) ==
    IF i > Len(a)
    THEN "Equal"
    ELSE IF a[i] < b[i] THEN "Less"
    ELSE IF a[i] > b[i] THEN "Greater"
    ELSE array_cmp(a, b, i + 1)

Enid40_cmp(self, other) == array_cmp(self, other, 1)

Enid80_cmp(self, other) == array_cmp(self, other, 1)

(***************************************************************************)
(* src/external/borsh.rs                                                   *)
(* A writer is the sequence of the bytes written so far (a Vec<u8>, whose  *)
(* write_all cannot fail).                                                 *)
(***************************************************************************)
write_all(writer, buf) == writer \o buf

Enid40_borsh_serialize(self, writer) == write_all(writer, self)

Enid80_borsh_serialize(self, writer) == write_all(writer, self)

\* a variant of Enid_borsh_serialize: both arms write the discriminant 0
Enid_borsh_serialize_same_tag(self, writer) ==
    IF self.variant = "Enid40"
    THEN Enid40_borsh_serialize(self.bytes, write_all(writer, <<0>>))
    ELSE Enid80_borsh_serialize(self.bytes, write_all(writer, <<0>>))

Enid_borsh_serialize(self, writer) ==
    IF self.variant = "Enid40"
    THEN Enid40_borsh_serialize(self.bytes, write_all(writer, <<0>>))
    ELSE Enid80_borsh_serialize(self.bytes, write_all(writer, <<1>>))

\* {value} in a format string, for a u8: its decimal digits, the first not 0
DIGITS == <<"0", "1", "2", "3", "4", "5", "6", "7", "8", "9">>

u8_to_string(value) ==
    IF value >= 100
    THEN DIGITS[(value \div 100) + 1] \o DIGITS[((value \div 10) % 10) + 1]
            \o DIGITS[(value % 10) + 1]
    ELSE IF value >= 10
    THEN DIGITS[(value \div 10) + 1] \o DIGITS[(value % 10) + 1]
    ELSE DIGITS[value + 1]

\* io::Error::new(kind, message)
IoError(kind, message) == [tag |-> "Err", val |-> <<kind, message>>]

\* borsh::io is std::io when borsh is built with its std feature, and
\* borsh's own io when it is not; the crate's source does not fix which
BorshIo == {"std", "no_std"}

\* A reader is the sequence of the bytes not read yet (a &[u8]); a read
\* returns its result with the reader it leaves.  Reading n bytes from a
\* shorter reader is an error; std::io leaves the reader empty, borsh's own
\* io leaves it as it was.
read_exact(io, reader, n) ==
    IF Len(reader) < n
    THEN [reader |-> IF io = "std" THEN <<>> ELSE reader,
          result |-> IoError("InvalidData", "Unexpected length of input")]
    ELSE [reader |-> SubSeq(reader, n + 1, Len(reader)),
          result |-> Ok(SubSeq(reader, 1, n))]

u8_deserialize_reader(io, reader) ==
    LET r == read_exact(io, reader, 1)
    IN  IF r.result.tag = "Ok"
        THEN [reader |-> r.reader, result |-> Ok(r.result.val[1])]
        ELSE r

array_deserialize_reader(io, reader, n) == read_exact(io, reader, n)

Enid40_borsh_deserialize_reader(io, reader) ==
    array_deserialize_reader(io, reader, 5)

Enid80_borsh_deserialize_reader(io, reader) ==
    array_deserialize_reader(io, reader, 10)

\* a variant of Enid_borsh_deserialize_reader: every discriminant but 0 is
\* read as an Enid80
Enid_borsh_deserialize_reader_catch_all(io, reader) ==
    LET d == u8_deserialize_reader(io, reader)
    IN  IF d.result.tag # "Ok"
        THEN d
        ELSE IF d.result.val = 0
        THEN LET r == Enid40_borsh_deserialize_reader(io, d.reader)
             IN  IF r.result.tag = "Ok"
                 THEN [r EXCEPT !.result = Ok(Enid_Enid40(r.result.val))]
                 ELSE r
        ELSE LET r == Enid80_borsh_deserialize_reader(io, d.reader)
             IN  IF r.result.tag = "Ok"
                 THEN [r EXCEPT !.result = Ok(Enid_Enid80(r.result.val))]
                 ELSE r

Enid_borsh_deserialize_reader(io, reader) ==
    LET d == u8_deserialize_reader(io, reader)
    IN  IF d.result.tag # "Ok"
        THEN d
        ELSE IF d.result.val = 0
        THEN LET r == Enid40_borsh_deserialize_reader(io, d.reader)
             IN  IF r.result.tag = "Ok"
                 THEN [r EXCEPT !.result = Ok(Enid_Enid40(r.result.val))]
                 ELSE r
        ELSE IF d.result.val = 1
        THEN LET r == Enid80_borsh_deserialize_reader(io, d.reader)
             IN  IF r.result.tag = "Ok"
                 THEN [r EXCEPT !.result = Ok(Enid_Enid80(r.result.val))]
                 ELSE r
        ELSE [reader |-> d.reader,
              result |-> IoError("InvalidData",
                                 "Invalid VarEnid80 variant: " \o u8_to_string(d.result.val))]

(***************************************************************************)
(* src/external/serde.rs                                                   *)
(* The crate hands one value to the serializer; what a serialization       *)
(* returns here is that call: the method of the Serializer and the data    *)
(* passed to it.                                                           *)
(***************************************************************************)
serialize_str(v) == [data |-> v, method |-> "serialize_str"]

serialize_bytes(v) == [data |-> v, method |-> "serialize_bytes"]

Enid40_serde_serialize(self, is_human_readable) ==
    IF is_human_readable
    THEN serialize_str(Enid40_write_to_buffer(self, Zeros(8)))
    ELSE serialize_bytes(self)

Enid80_serde_serialize(self, is_human_readable) ==
    IF is_human_readable
    THEN serialize_str(Enid80_write_to_buffer(self, Zeros(17)))
    ELSE serialize_bytes(self)

Enid_serde_serialize(self, is_human_readable) ==
    IF self.variant = "Enid40"
    THEN Enid40_serde_serialize(self.bytes, is_human_readable)
    ELSE Enid80_serde_serialize(self.bytes, is_human_readable)

(***************************************************************************)
(* Inputs of the operations                                                *)
(***************************************************************************)
\* number of byte values in the grid of 5-byte inputs
NumSampleBytes == 4

\* number of alphabet symbols in the grid of 8-symbol texts
NumSampleSymbols == 2

\* longest text tried for its length alone
MaxTextLen == 18

Byte == 0..255

\* 0x00, 0x55, 0xaa, 0xff, ...
SampleBytes == {(k * 85) % 256 : k \in 0..(NumSampleBytes - 1)}

\* 'a' (01010), 'n' (10101), 'z' (11111), '0' (00000), then upwards from '1'
SampleSymbols ==
    {IF k = 0 THEN 97 ELSE IF k = 1 THEN 110 ELSE IF k = 2 THEN 122 ELSE 45 + k :
        k \in 0..(NumSampleSymbols - 1)}

\* the byte arrays of the tests and doc examples of src/enid.rs
TestBytes5 ==
    { <<0, 0, 0, 0, 0>>, <<255, 255, 255, 255, 255>>, <<0, 0, 0, 0, 1>>,
      <<0, 0, 0, 0, 31>>, <<0, 0, 0, 0, 32>>, <<230, 41, 6, 32, 128>>,
      <<240, 225, 210, 195, 180>>, <<161, 178, 195, 212, 229>> }

TestBytes10 ==
    { <<0, 0, 0, 0, 64, 0, 0, 0, 0, 32>>,
      <<247, 53, 139, 82, 80, 115, 20, 131, 16, 64>>,
      <<240, 225, 210, 195, 180, 165, 150, 135, 120, 105>> }

\* "00000000", "zzzzzzzz", "y3gx5gxm", "wrmgc840", "m6sc7n75", "mpb8ey39"
TestText8 ==
    { <<48, 48, 48, 48, 48, 48, 48, 48>>,
      <<122, 122, 122, 122, 122, 122, 122, 122>>,
      <<121, 51, 103, 120, 53, 103, 120, 109>>,
      <<119, 114, 109, 103, 99, 56, 52, 48>>,
      <<109, 54, 115, 99, 55, 110, 55, 53>>,
      <<109, 112, 98, 56, 101, 121, 51, 57>> }

\* "y3gx5gxm-mpb8ey39"
TestText17 ==
    <<121, 51, 103, 120, 53, 103, 120, 109, 45,
      109, 112, 98, 56, 101, 121, 51, 57>>

\* the bytes tried inside a text that is parsed: the characters from '-'
\* to '9' and from '@' to DEL, among them the whole alphabet, i, l, o, u and
\* the uppercase letters, with NUL, the space and the two highest bytes
TextBytes == {0, 32, 254, 255} \cup 45..57 \cup 64..127

\* a base array with one of its bytes replaced by one of the values
WalkOver(base, values) == {[base EXCEPT ![p] = v] : p \in 1..Len(base), v \in values}

\* every value of every byte of a base array
Walk(base) == WalkOver(base, Byte)

\* a base text with hyphens written at up to two places
Hyphenated(base) ==
    {[i \in 1..Len(base) |-> IF i \in {p, q} THEN HYPHEN ELSE base[i]] :
        p \in 0..Len(base), q \in 0..Len(base)}

\* the text of n symbols c
RECURSIVE Repeat(_, _)
Repeat(c, n) == IF n = 0 THEN <<>> ELSE <<c>> \o Repeat(c, n - 1)

ByteGrid ==
    {<<a, b, c, d, e>> : a \in SampleBytes, b \in SampleBytes, c \in SampleBytes,
                         d \in SampleBytes, e \in SampleBytes}

Bytes5Inputs ==
    ByteGrid
    \cup Walk(<<0, 0, 0, 0, 0>>)
    \cup Walk(<<240, 225, 210, 195, 180>>)
    \cup TestBytes5

Bytes10Inputs ==
    {x \o y : x \in TestBytes5, y \in TestBytes5}
    \cup Walk(<<240, 225, 210, 195, 180, 165, 150, 135, 120, 105>>)
    \cup TestBytes10

EnidInputs ==
    {Enid_Enid40(b) : b \in ByteGrid \cup TestBytes5}
    \cup {Enid_Enid80(x \o y) : x \in TestBytes5, y \in TestBytes5}
    \cup {Enid_Enid80(b) : b \in TestBytes10}

SymbolGrid ==
    {<<a, b, c, d, e, f, g, h>> :
        a \in SampleSymbols, b \in SampleSymbols, c \in SampleSymbols,
        d \in SampleSymbols, e \in SampleSymbols, f \in SampleSymbols,
        g \in SampleSymbols, h \in SampleSymbols}

Text8Inputs ==
    SymbolGrid
    \cup Walk(<<48, 48, 48, 48, 48, 48, 48, 48>>)
    \cup Walk(<<121, 51, 103, 120, 53, 103, 120, 109>>)
    \cup TestText8

TextInputs ==
    SymbolGrid
    \cup WalkOver(<<48, 48, 48, 48, 48, 48, 48, 48>>, TextBytes)
    \cup WalkOver(<<121, 51, 103, 120, 53, 103, 120, 109>>, TextBytes)
    \cup TestText8
    \cup WalkOver(TestText17, TextBytes)
    \cup {x \o <<sep>> \o y : x \in TestText8, y \in TestText8, sep \in {HYPHEN, 48, 95}}
    \cup Hyphenated(Repeat(48, 17))
    \cup Hyphenated([TestText17 EXCEPT ![9] = 48])
    \cup UNION {Hyphenated(Repeat(48, n)) : n \in 0..MaxTextLen}
    \cup {Repeat(122, n) : n \in 0..MaxTextLen}
\* the identifiers that are serialized
SerializeInputs ==
    {Enid_Enid40(b) : b \in TestBytes5}
    \cup {Enid_Enid80(x \o y) : x \in TestBytes5, y \in TestBytes5}
    \cup {Enid_Enid80(b) : b \in TestBytes10}

\* the alphabets a table is built from: the alphabet of the crate, the
\* alphabet with one symbol written over another place (a duplicate), with
\* one symbol replaced by a byte outside it, and two other alphabets
\* without duplicates (uppercase, and the letters from 'A' upwards)
AlphabetInputs ==
    {CHARS, CHARS_uppercase, [i \in 1..32 |-> 64 + i]}
    \cup {[CHARS EXCEPT ![p] = CHARS[q]] : p \in 1..32, q \in 1..32}
    \cup {[CHARS EXCEPT ![p] = v] : p \in 1..32, v \in {0, 105, 255}}

\* the byte arrays whose encoding is followed iteration by iteration
LoopInputs ==
    TestBytes5
    \cup {<<a, b, c, b, a>> : a \in SampleBytes, b \in SampleBytes, c \in SampleBytes}

\* longest payload that follows a discriminant in a reader
MaxPayloadLen == 12

\* the first n of the bytes f0 e1 d2 ..., each 15 less than the one before
Payload(n) == [i \in 1..n |-> 255 - 15 * i]

\* the readers: every discriminant before payloads of the lengths 0, 5 and
\* 10, the discriminants 0, 1, 2 and 255 before payloads of every length,
\* the empty reader, and what the serialization writes
ReaderInputs ==
    {<<d>> \o Payload(n) : d \in Byte, n \in {0, 5, 10}}
    \cup {<<d>> \o Payload(n) : d \in {0, 1, 2, 255}, n \in 0..MaxPayloadLen}
    \cup {<<>>}
    \cup {Enid_borsh_serialize(e, <<>>) : e \in SerializeInputs}

\* the values that are compared with each other
OrderInputs5 ==
    TestBytes5
    \cup {<<a, b, a, b, a>> : a \in SampleBytes, b \in SampleBytes}
    \cup {<<0, 0, 0, 0, v>> : v \in {7, 8, 30, 33}}

OrderHalves ==
    { <<0, 0, 0, 0, 0>>, <<0, 0, 0, 0, 1>>, <<0, 0, 0, 0, 32>>,
      <<240, 225, 210, 195, 180>>, <<255, 255, 255, 255, 255>> }

OrderInputs10 ==
    {x \o y : x \in OrderHalves, y \in OrderHalves} \cup TestBytes10

(***************************************************************************)
(* The calls: op is the operation that was called ("none" between calls),  *)
(* arg its argument and out what it returned.  The operations are pure, so *)
(* a run of the program is a sequence of calls, each followed by Return.   *)
(***************************************************************************)
Idle == op = "none"

Call(name, a, r) == op' = name /\ arg' = a /\ out' = r

\* the loop of encode is running
InLoop == op = "encode_loop" /\ out.i < 8 /\ ~out.panicked

Return == op # "none" /\ ~InLoop /\ op' = "none" /\ arg' = <<>> /\ out' = <<>>

Call_encode == Idle /\ \E b \in Bytes5Inputs : Call("encode", b, encode(b))

Call_decode == Idle /\ \E c \in Text8Inputs : Call("decode", c, decode(c))

Call_Enid40_parse_str_ascii ==
    Idle /\ \E s \in TextInputs : Call("Enid40::parse_str_ascii", s, Enid40_parse_str_ascii(s))

Call_Enid40_to_string ==
    Idle /\ \E b \in Bytes5Inputs : Call("Enid40::to_string", b, Enid40_to_string(b))

Call_Enid80_parse_str_ascii ==
    Idle /\ \E s \in TextInputs : Call("Enid80::parse_str_ascii", s, Enid80_parse_str_ascii(s))

Call_Enid80_to_string ==
    Idle /\ \E b \in Bytes10Inputs : Call("Enid80::to_string", b, Enid80_to_string(b))

Call_Enid_parse_str_ascii ==
    Idle /\ \E s \in TextInputs : Call("Enid::parse_str_ascii", s, Enid_parse_str_ascii(s))

Call_Enid_to_string ==
    Idle /\ \E e \in EnidInputs : Call("Enid::to_string", e, Enid_to_string(e))

Call_Enid_borsh_serialize ==
    Idle /\ \E e \in SerializeInputs :
        Call("Enid::borsh_serialize", e, Enid_borsh_serialize(e, <<>>))

Call_Enid_serde_serialize ==
    Idle /\ \E e \in SerializeInputs, h \in BOOLEAN :
        Call("Enid::serde_serialize", [enid |-> e, human_readable |-> h],
             Enid_serde_serialize(e, h))

\* the evaluation of the initializer of the table
Call_VALUES ==
    Idle /\ \E chars \in AlphabetInputs : Call("VALUES", chars, VALUES_build(chars))

\* encode followed through its loop: out holds the locals bits, chars and i
Enter_encode_loop ==
    Idle /\ \E b \in LoopInputs : Call("encode_loop", b, encode_enter(b))

Step_encode_loop ==
    /\ InLoop
    /\ out' = encode_iteration(out)
    /\ UNCHANGED <<op, arg>>

Call_Enid_borsh_deserialize ==
    Idle /\ \E reader \in ReaderInputs, io \in BorshIo :
        Call("Enid::borsh_deserialize", reader,
             Enid_borsh_deserialize_reader(io, reader))

Call_Enid40_cmp ==
    Idle /\ \E a \in OrderInputs5, b \in OrderInputs5 :
        Call("Enid40::cmp", <<a, b>>, Enid40_cmp(a, b))

Call_Enid80_cmp ==
    Idle /\ \E a \in OrderInputs10, b \in OrderInputs10 :
        Call("Enid80::cmp", <<a, b>>, Enid80_cmp(a, b))

Init == op = "none" /\ arg = <<>> /\ out = <<>>

Next ==
    \/ Call_encode
    \/ Call_decode
    \/ Call_Enid40_parse_str_ascii
    \/ Call_Enid40_to_string
    \/ Call_Enid80_parse_str_ascii
    \/ Call_Enid80_to_string
    \/ Call_Enid_parse_str_ascii
    \/ Call_Enid_to_string
    \/ Call_Enid_borsh_serialize
    \/ Call_Enid_serde_serialize
    \/ Call_VALUES
    \/ Enter_encode_loop
    \/ Step_encode_loop
    \/ Call_Enid_borsh_deserialize
    \/ Call_Enid40_cmp
    \/ Call_Enid80_cmp
    \/ Return

Spec == Init /\ [][Next]_vars

(***************************************************************************)
(* Properties                                                              *)
(***************************************************************************)
\* the 32 symbols 0123456789abcdefghjkmnpqrstvwxyz, by their ASCII ranges:
\* the digits and the lowercase letters without i, l, o and u
IsAlphabetSymbol(c) ==
    \/ c \in 48..57
    \/ c \in 97..122 /\ c \notin {105, 108, 111, 117}

AllAlphabet(s, from, to) == \A i \in from..to : IsAlphabetSymbol(s[i])

\* C1: for every 5-byte input b, decode(encode(b)) is Ok(b)
C1_DecodeEncode == op = "encode" => decode(out) = Ok(arg)

C1_Witness ==
    /\ op = "encode"
    /\ arg = <<85, 170, 255, 0, 85>>
    /\ Len(out) = 8
    /\ decode(out) = Ok(arg)

\* C2: every 8-byte text made of alphabet symbols only decodes to Ok(b) for
\* a 5-byte b, and encode(b) is that text again (encode is onto the valid
\* texts)
C2_EncodeOnto ==
    (op = "decode" /\ AllAlphabet(arg, 1, 8)) =>
        /\ out.tag = "Ok"
        /\ Len(out.val) = 5
        /\ \A i \in 1..5 : out.val[i] \in Byte
        /\ encode(out.val) = arg

C2_Witness ==
    /\ op = "decode"
    /\ arg = <<97, 110, 110, 97, 97, 110, 97, 110>>
    /\ out.tag = "Ok"
    /\ encode(out.val) = arg

\* C3: decode returns Err exactly for the 8-byte inputs that hold a byte
\* which is not one of the 32 lowercase alphabet symbols, and Ok for all
\* the others
C3_DecodeRejects ==
    op = "decode" =>
        /\ out.tag \in {"Ok", "Err"}
        /\ out.tag = "Err" <=> (\E i \in 1..8 : ~IsAlphabetSymbol(arg[i]))

\* "y3gX5gxm": an uppercase letter in the middle
C3_Witness ==
    /\ op = "decode"
    /\ arg = <<121, 51, 103, 88, 53, 103, 120, 109>>
    /\ out = Err

Vectors40 ==
    { [bytes |-> <<0, 0, 0, 0, 0>>, text |-> <<48, 48, 48, 48, 48, 48, 48, 48>>],
      [bytes |-> <<255, 255, 255, 255, 255>>,
       text |-> <<122, 122, 122, 122, 122, 122, 122, 122>>],
      [bytes |-> <<0, 0, 0, 0, 1>>, text |-> <<48, 48, 48, 48, 48, 48, 48, 49>>],
      [bytes |-> <<0, 0, 0, 0, 31>>, text |-> <<48, 48, 48, 48, 48, 48, 48, 122>>],
      [bytes |-> <<0, 0, 0, 0, 32>>, text |-> <<48, 48, 48, 48, 48, 48, 49, 48>>],
      [bytes |-> <<240, 225, 210, 195, 180>>,
       text |-> <<121, 51, 103, 120, 53, 103, 120, 109>>],
      [bytes |-> <<230, 41, 6, 32, 128>>,
       text |-> <<119, 114, 109, 103, 99, 56, 52, 48>>],
      [bytes |-> <<161, 178, 195, 212, 229>>,
       text |-> <<109, 54, 115, 99, 55, 110, 55, 53>>] }

Vectors80 ==
    { [bytes |-> <<240, 225, 210, 195, 180, 165, 150, 135, 120, 105>>,
       text |-> TestText17] }

\* C4: the bit-exact vectors hold in both directions: formatting the bytes
\* gives the text and parsing the text gives the bytes, for the eight
\* 5-byte vectors and the 10-byte vector
C4_Vectors ==
    /\ \A v \in Vectors40 :
        /\ (op = "Enid40::to_string" /\ arg = v.bytes) => out = v.text
        /\ (op = "Enid40::parse_str_ascii" /\ arg = v.text) => out = Ok(v.bytes)
    /\ \A v \in Vectors80 :
        /\ (op = "Enid80::to_string" /\ arg = v.bytes) => out = v.text
        /\ (op = "Enid80::parse_str_ascii" /\ arg = v.text) => out = Ok(v.bytes)

C4_Witness ==
    /\ op = "Enid80::parse_str_ascii"
    /\ arg = TestText17
    /\ out = Ok(<<240, 225, 210, 195, 180, 165, 150, 135, 120, 105>>)

\* the places of a text that hold a hyphen
HyphenPlaces(s) == {i \in 1..Len(s) : s[i] = HYPHEN}

\* C5: Enid80::parse_str_ascii succeeds exactly when the text has 17 bytes,
\* a hyphen at index 8 and alphabet symbols at indexes 0..7 and 9..16; a
\* 17-byte text whose hyphens are not exactly the one at index 8 is an Err
C5_Enid80Parse ==
    op = "Enid80::parse_str_ascii" =>
        /\ out.tag \in {"Ok", "Err"}
        /\ out.tag = "Ok" <=>
            /\ Len(arg) = 17
            /\ arg[9] = HYPHEN
            /\ AllAlphabet(arg, 1, 8)
            /\ AllAlphabet(arg, 10, 17)
        /\ (Len(arg) = 17 /\ HyphenPlaces(arg) # {9}) => out = Err

\* "000-0000000000000": 17 bytes with the hyphen at index 3
C5_Witness ==
    /\ op = "Enid80::parse_str_ascii"
    /\ Len(arg) = 17
    /\ HyphenPlaces(arg) = {4}
    /\ AllAlphabet(arg, 1, 3)
    /\ AllAlphabet(arg, 5, 17)
    /\ out = Err

\* C6: Enid40::parse_str_ascii succeeds exactly when the text has 8 bytes,
\* all of them alphabet symbols, and then its value is what decode gives
C6_Enid40Parse ==
    op = "Enid40::parse_str_ascii" =>
        /\ out.tag \in {"Ok", "Err"}
        /\ out.tag = "Ok" <=> (Len(arg) = 8 /\ AllAlphabet(arg, 1, 8))
        /\ out.tag = "Ok" => out = decode(arg)

\* "000000000": nine symbols
C6_Witness ==
    /\ op = "Enid40::parse_str_ascii"
    /\ arg = Repeat(48, 9)
    /\ out = Err

\* C7: formatting an Enid80 gives encode(b[0..5]) ++ "-" ++ encode(b[5..10]),
\* 17 bytes, and parsing that text gives the Enid80 back
C7_Enid80RoundTrip ==
    op = "Enid80::to_string" =>
        /\ Len(out) = 17
        /\ out = encode(SubSeq(arg, 1, 5)) \o <<HYPHEN>> \o encode(SubSeq(arg, 6, 10))
        /\ Enid80_parse_str(out) = Ok(arg)

C7_Witness ==
    /\ op = "Enid80::to_string"
    /\ arg = <<247, 53, 139, 82, 80, 115, 20, 131, 16, 64>>
    /\ Enid80_parse_str(out) = Ok(arg)

\* C8: a text that Enid40 or Enid80 parsing accepts is the text that
\* formatting the parsed value gives (parse_str is parse_str_ascii on the
\* bytes of the text)
C8_FormatParsed ==
    /\ (op = "Enid40::parse_str_ascii" /\ out.tag = "Ok") => Enid40_to_string(out.val) = arg
    /\ (op = "Enid80::parse_str_ascii" /\ out.tag = "Ok") => Enid80_to_string(out.val) = arg

C8_Witness ==
    /\ op = "Enid80::parse_str_ascii"
    /\ out.tag = "Ok"
    /\ arg[1] = 119
    /\ arg[10] = 109
    /\ Enid80_to_string(out.val) = arg

\* C9: Enid::parse_str_ascii looks at the length only: 8 bytes give the
\* result of Enid40 parsing in the Enid40 variant, any other length the
\* result of Enid80 parsing in the Enid80 variant, so a length other than 8
\* and 17 is an Err
C9_EnidDispatch ==
    op = "Enid::parse_str_ascii" =>
        /\ Len(arg) = 8 =>
            /\ Enid40_parse_str_ascii(arg).tag = "Ok" =>
                out = Ok(Enid_Enid40(Enid40_parse_str_ascii(arg).val))
            /\ Enid40_parse_str_ascii(arg).tag = "Err" => out = Err
            /\ out.tag = "Ok" => out.val.variant = "Enid40"
        /\ Len(arg) # 8 =>
            /\ Enid80_parse_str_ascii(arg).tag = "Ok" =>
                out = Ok(Enid_Enid80(Enid80_parse_str_ascii(arg).val))
            /\ Enid80_parse_str_ascii(arg).tag = "Err" => out = Err
            /\ out.tag = "Ok" => out.val.variant = "Enid80"
        /\ Len(arg) \notin {8, 17} => out = Err

C9_Witness ==
    /\ op = "Enid::parse_str_ascii"
    /\ Len(arg) = 8
    /\ out = Ok(Enid_Enid40(<<230, 41, 6, 32, 128>>))

\* C10: for every Enid e of either variant, Enid::from_str(e.to_string())
\* is Ok(e), with the variant and the bytes of e
C10_EnidRoundTrip ==
    op = "Enid::to_string" =>
        /\ Enid_from_str(out).tag = "Ok"
        /\ Enid_from_str(out).val.variant = arg.variant
        /\ Enid_from_str(out).val.bytes = arg.bytes

C10_Witness ==
    /\ op = "Enid::to_string"
    /\ arg.variant = "Enid80"
    /\ arg.bytes = <<0, 0, 0, 0, 64, 0, 0, 0, 0, 32>>
    /\ Enid_from_str(out) = Ok(arg)

\* the discriminant the claim gives a variant
Discriminant(e) == IF e.variant = "Enid40" THEN 0 ELSE 1

\* C11 (as stated): in a binary format, borsh and serde without a
\* human-readable serializer alike, the output is the discriminant byte (0
\* for Enid40, 1 for Enid80) followed by the 5 or 10 raw bytes
C11_AsStated ==
    /\ op = "Enid::borsh_serialize" => out = <<Discriminant(arg)>> \o arg.bytes
    /\ (op = "Enid::serde_serialize" /\ ~arg.human_readable) =>
        /\ out.method = "serialize_bytes"
        /\ out.data = <<Discriminant(arg.enid)>> \o arg.enid.bytes

\* C11 (amended): borsh writes the discriminant byte (0 for Enid40, 1 for
\* Enid80) followed by the 5 or 10 raw bytes; serde without a
\* human-readable serializer passes exactly the 5 or 10 raw bytes to
\* serialize_bytes, with no discriminant byte; neither output is base32 text
C11_BinaryForms ==
    /\ op = "Enid::borsh_serialize" =>
        /\ out = <<Discriminant(arg)>> \o arg.bytes
        /\ Len(out) = (IF arg.variant = "Enid40" THEN 6 ELSE 11)
    /\ (op = "Enid::serde_serialize" /\ ~arg.human_readable) =>
        /\ out.method = "serialize_bytes"
        /\ out.data = arg.enid.bytes
        /\ Len(out.data) = (IF arg.enid.variant = "Enid40" THEN 5 ELSE 10)

C11_Witness ==
    /\ op = "Enid::serde_serialize"
    /\ ~arg.human_readable
    /\ arg.enid.variant = "Enid80"
    /\ out = serialize_bytes(<<240, 225, 210, 195, 180, 165, 150, 135, 120, 105>>)

\* the cells of a table that do not hold the sentinel
ValidCells(values) == {v \in 0..255 : values[v] # 255}

\* C12: the table built from the alphabet maps the symbol of every index i
\* in 0..31 to i and every byte that is not an alphabet symbol to 0xff, so
\* it is injective on the symbols and exactly 32 of its 256 cells hold a
\* value; VALUES is that table
C12_ValuesTable ==
    (op = "VALUES" /\ arg = CHARS) =>
        /\ ~out.panicked
        /\ DOMAIN out.values = 0..255
        /\ \A i \in 0..31 : out.values[CHARS[i + 1]] = i
        /\ \A v \in 0..255 : ~IsAlphabetSymbol(v) => out.values[v] = 255
        /\ \A v \in 0..255 : IsAlphabetSymbol(v) => out.values[v] \in 0..31
        /\ \A v, w \in ValidCells(out.values) :
            out.values[v] = out.values[w] => v = w
        /\ Cardinality(ValidCells(out.values)) = 32
        /\ VALUES = out.values

C12_Witness ==
    /\ op = "VALUES"
    /\ arg = CHARS
    /\ out.values[48] = 0
    /\ out.values[122] = 31
    /\ out.values[105] = 255

HasDuplicate(chars) ==
    \E i \in 1..Len(chars), j \in 1..Len(chars) : i < j /\ chars[i] = chars[j]

\* C13: the construction of the table fails its assertion for every
\* alphabet of 32 symbols that holds a symbol twice, and does not fail for
\* the alphabet of the crate, whose 32 symbols are pairwise distinct
C13_DuplicateFails ==
    op = "VALUES" =>
        /\ (Len(arg) = 32 /\ HasDuplicate(arg)) => out.panicked
        /\ arg = CHARS => (~out.panicked /\ ~HasDuplicate(arg) /\ Len(arg) = 32)

\* the last symbol 'z' replaced by the first, '0'
C13_Witness ==
    /\ op = "VALUES"
    /\ Len(arg) = 32
    /\ arg[32] = 48
    /\ arg[1] = 48
    /\ out.panicked

\* C14: encode returns, for every 5-byte input, exactly 8 bytes that are
\* alphabet symbols; in every iteration of its loop the index bits >> 59 is
\* in 0..31, so that no access to CHARS is out of bounds and nothing fails
C14_EncodeTotal ==
    /\ op = "encode" =>
        /\ out # PANIC
        /\ Len(out) = 8
        /\ \A k \in 1..8 : IsAlphabetSymbol(out[k])
    /\ op = "encode_loop" =>
        /\ ~out.panicked
        /\ out.i \in 0..8
        /\ out.i < 8 => encode_index(out.bits) \in 0..31
        /\ out.i = 8 => out.chars = encode(arg)

\* the last iteration on the bytes ff ff ff ff ff reads CHARS[31]
C14_Witness ==
    /\ op = "encode_loop"
    /\ arg = <<255, 255, 255, 255, 255>>
    /\ out.i = 7
    /\ encode_index(out.bits) = 31

\* quintet k (0 the most significant) of the 40-bit big-endian integer N of
\* five bytes, (N div 32^(7-k)) mod 32.  N = hi * 32^4 + lo with hi and lo
\* below 2^20, so the quintets 0..3 are those of hi and 4..7 those of lo.
Quintet(bytes, k) ==
    LET hi == bytes[1] * 4096 + bytes[2] * 16 + (bytes[3] \div 16)
        lo == (bytes[3] % 16) * 65536 + bytes[4] * 256 + bytes[5]
    IN  IF k < 4
        THEN (hi \div (32 ^ (3 - k))) % 32
        ELSE (lo \div (32 ^ (7 - k))) % 32

\* C15: symbol k of encode(b) is CHARS[(N div 32^(7-k)) mod 32] for the
\* 40-bit big-endian integer N of b, most significant quintet first, and
\* iteration k of the loop on the 64-bit word reads exactly that index
C15_QuintetOrder ==
    /\ op = "encode" =>
        \A k \in 0..7 : out[k + 1] = CHARS[Quintet(arg, k) + 1]
    /\ (op = "encode_loop" /\ out.i < 8) =>
        encode_index(out.bits) = Quintet(arg, out.i)

\* e6 29 06 20 80 is "wrmgc840": quintet 3 is 16, 'g'
C15_Witness ==
    /\ op = "encode_loop"
    /\ arg = <<230, 41, 6, 32, 128>>
    /\ out.i = 3
    /\ encode_index(out.bits) = 16
    /\ Quintet(arg, 3) = 16

\* C16: borsh deserialization of an Enid reads the discriminant byte and
\* then, for 0, exactly 5 bytes into the Enid40 variant, for 1, exactly 10
\* bytes into the Enid80 variant, and for 2..255 nothing more: it returns
\* an InvalidData error and no value; so deserializing what the
\* serialization of an Enid wrote gives that Enid
C16_BorshDeserialize ==
    /\ (op = "Enid::borsh_deserialize" /\ Len(arg) >= 1) =>
        /\ (arg[1] = 0 /\ Len(arg) >= 6) =>
            /\ out.result = Ok(Enid_Enid40(SubSeq(arg, 2, 6)))
            /\ out.reader = SubSeq(arg, 7, Len(arg))
        /\ (arg[1] = 1 /\ Len(arg) >= 11) =>
            /\ out.result = Ok(Enid_Enid80(SubSeq(arg, 2, 11)))
            /\ out.reader = SubSeq(arg, 12, Len(arg))
        /\ arg[1] \in 2..255 =>
            /\ out.result.tag = "Err"
            /\ out.result.val[1] = "InvalidData"
            /\ out.reader = Tail(arg)
    /\ op = "Enid::borsh_serialize" =>
        \A io \in BorshIo :
            /\ Enid_borsh_deserialize_reader(io, out).result = Ok(arg)
            /\ Enid_borsh_deserialize_reader(io, out).reader = <<>>

\* the discriminant 2 before ten bytes
C16_Witness ==
    /\ op = "Enid::borsh_deserialize"
    /\ Len(arg) = 11
    /\ arg[1] = 2
    /\ out.result.tag = "Err"
    /\ Len(out.reader) = 10

\* s < t for two texts compared byte by byte, as str compares
TextLess(s, t) ==
    \/ Len(s) < Len(t) /\ \A i \in 1..Len(s) : s[i] = t[i]
    \/ \E k \in 1..Len(s) :
        /\ k <= Len(t)
        /\ s[k] < t[k]
        /\ \A i \in 1..(k - 1) : s[i] = t[i]

\* C17: the text keeps the order of each form: for two Enid40 values, and
\* for two Enid80 values, a < b in the derived order of the bytes exactly
\* when a.to_string() < b.to_string() as texts compared byte by byte; the
\* alphabet symbols are in strictly ascending ASCII order
C17_OrderPreserved ==
    /\ op = "Enid40::cmp" =>
        /\ out = "Less" <=> TextLess(Enid40_to_string(arg[1]), Enid40_to_string(arg[2]))
        /\ out = "Equal" <=> Enid40_to_string(arg[1]) = Enid40_to_string(arg[2])
        /\ \A i \in 1..31 : CHARS[i] < CHARS[i + 1]
    /\ op = "Enid80::cmp" =>
        /\ out = "Less" <=> TextLess(Enid80_to_string(arg[1]), Enid80_to_string(arg[2]))
        /\ out = "Equal" <=> Enid80_to_string(arg[1]) = Enid80_to_string(arg[2])

\* two Enid80 that differ only after the hyphen: ..00 00 00 00 01 and
\* ..00 00 00 00 20
C17_Witness ==
    /\ op = "Enid80::cmp"
    /\ arg[1] = <<240, 225, 210, 195, 180, 0, 0, 0, 0, 1>>
    /\ arg[2] = <<240, 225, 210, 195, 180, 0, 0, 0, 0, 32>>
    /\ out = "Less"
    /\ TextLess(Enid80_to_string(arg[1]), Enid80_to_string(arg[2]))

====
